---------------------------- MODULE Spec2Model ----------------------------
(***************************************************************************)
(* Model of HW2-split_upload_4gb.go: run() and its helpers splitFile,      *)
(* uploadSingleFragment, downloadAndMerge and fileMD5.                     *)
(*                                                                         *)
(* Files are byte sequences.  Go strings (digests, ContentIDs, log lines)  *)
(* are sequences of one-character strings, so that len(s), s[:12] and      *)
(* filepath.SplitList are computed as the code computes them.              *)
(* The transfer client (0g-storage-client) is outside the repository: the  *)
(* result of each of its calls is a choice among the outcomes it can       *)
(* have, with the --timeout it is given turning a call that never ends     *)
(* into an error.                                                          *)
(***************************************************************************)
EXTENDS Integers, Sequences, FiniteSets, TLC

\* ------------------------------------------------------------------ bounds
\* Longest source file, in bytes.
MaxLen == 4
\* Largest byte value of a file.
MaxByte == 1
\* Largest chunkSize splitFile is called with when it is checked on its own.
MaxChunk == 3
\* Longest manifest downloadAndMerge is called with when it is checked on its own.
MaxRoots == 2

\* FragmentSize = 400 * 1024 * 1024 in the source, scaled to bytes of the model.
FragmentSize == 2

Byte == 0..MaxByte
Sources == UNION {[1..n -> Byte] : n \in 0..MaxLen}
Blocks == UNION {[1..n -> Byte] : n \in 0..1}

\* ----------------------------------------------------------------- strings
EmptyString == <<>>

HexChars == <<"0", "1", "2", "3", "4", "5", "6", "7",
              "8", "9", "a", "b", "c", "d", "e", "f">>

\* The literal the log hook compares against: "file uploaded" (13 characters).
FileUploadedLit ==
    <<"f", "i", "l", "e", " ", "u", "p", "l", "o", "a", "d", "e", "d">>

Min(a, b) == IF a < b THEN a ELSE b

\* s[:n] of Go, for n <= len(s).
Prefix(s, n) == SubSeq(s, 1, n)

RECURSIVE Pow16(_)
Pow16(k) == IF k = 0 THEN 1 ELSE 16 * Pow16(k - 1)

\* The low four hex digits of h, left-padded with "0" to `width` characters.
HexString(h, width) ==
    [k \in 1..width |->
        IF k <= width - 4 THEN "0"
        ELSE HexChars[((h \div Pow16(width - k)) % 16) + 1]]

RECURSIVE Concat(_)
Concat(ss) == IF ss = <<>> THEN <<>> ELSE Head(ss) \o Concat(Tail(ss))

\* ------------------------------------------------------------------ digest
\* md5.New() fed the bytes in order: a 16-bit running hash stands for the
\* 128-bit one (it depends on every byte and on their order).
RECURSIVE HashFrom(_, _)
HashFrom(h, data) ==
    IF data = <<>> THEN h
    ELSE HashFrom((h * 31 + Head(data) + 1) % 65536, Tail(data))

MD5Sum(data) == HashFrom(7, data)

\* hex.EncodeToString(h.Sum(nil)): 32 hex characters.
HexEncodeToString(h) == HexString(h, 32)

\* fileMD5(path): ok = FALSE is os.Open or io.Copy failing ("" and an error).
fileMD5(data, ok) ==
    IF ok THEN [sum |-> HexEncodeToString(MD5Sum(data)), err |-> FALSE]
    ELSE [sum |-> EmptyString, err |-> TRUE]

\* --------------------------------------------------------------- splitFile
NoFault == [at |-> -1, op |-> "none"]

\* The I/O failures splitFile can meet: read, create or write of iteration `at`.
SplitFaults(src, chunk) ==
    {NoFault} \cup
    [at : 0..((Len(src) + chunk - 1) \div chunk), op : {"read", "create", "write"}]

\* f.Read(buf) on an *os.File at offset off: up to len(buf) bytes and a nil
\* error, or 0 bytes and io.EOF at the end of the file, or 0 bytes and the error.
\* The bytes read overwrite buf[0:n]; the rest of buf keeps what it held.
FileRead(src, off, buf, failed) ==
    IF failed THEN [n |-> 0, err |-> "EIO", buf |-> buf]
    ELSE IF off >= Len(src) THEN [n |-> 0, err |-> "EOF", buf |-> buf]
    ELSE LET n == Min(Len(buf), Len(src) - off)
         IN  [n |-> n, err |-> "nil",
              buf |-> [k \in 1..Len(buf) |->
                          IF k <= n THEN src[off + k] ELSE buf[k]]]

\* Mutant of EndOfInput: a short read is taken for the end of the input.
EndOfInput_ShortRead(n, chunk) == n < chunk

\* `if n == 0`: the read that ends the loop.
EndOfInput(n, chunk) == n = 0

\* Mutant of FragmentBytes: the whole buffer is written, stale tail included.
FragmentBytes_WholeBuf(buf, n) == buf

\* buf[:n], the bytes written to the fragment file.
FragmentBytes(buf, n) == Prefix(buf, n)

\* The loop of splitFile from iteration i on.  files: the paths collected so
\* far (fragment_%03d.dat is named by its number i); disk: the content of the
\* fragment files created so far, disk[i + 1] being that of fragment i.
RECURSIVE SplitLoop(_, _, _, _, _, _, _)
SplitLoop(src, chunk, off, i, buf, st, fault) ==
    LET r == FileRead(src, off, buf, fault = [at |-> i, op |-> "read"])
    IN  IF EndOfInput(r.n, chunk)
        THEN IF r.err # "nil" /\ r.err # "EOF"
             THEN [files |-> <<>>, disk |-> st.disk, err |-> TRUE]
             ELSE [files |-> st.files, disk |-> st.disk, err |-> FALSE]
        ELSE IF fault = [at |-> i, op |-> "create"]
        THEN [files |-> <<>>, disk |-> st.disk, err |-> TRUE]
        ELSE IF fault = [at |-> i, op |-> "write"]
        THEN [files |-> <<>>, disk |-> Append(st.disk, <<>>), err |-> TRUE]
        ELSE \* `out, err := os.Create(..)` has set err to nil: the test of
             \* io.EOF after the append is never true, and the loop goes on.
             SplitLoop(src, chunk, off + r.n, i + 1, r.buf,
                       [files |-> Append(st.files, i),
                        disk |-> Append(st.disk, FragmentBytes(r.buf, r.n))],
                       fault)

splitFile(src, chunk, fault) ==
    SplitLoop(src, chunk, 0, 0, [k \in 1..chunk |-> 0],
              [files |-> <<>>, disk |-> <<>>], fault)


\* ------------------------------------------------- the store's put (upload)
\* The ContentID the store gives a fragment: "0x" and 64 hex characters,
\* a function of the bytes stored (content addressing).
RootOf(data) == <<"0", "x">> \o HexString(MD5Sum(data), 64)

\* What the upload command may log through logrus.Infof once the fragment is
\* stored; the client's wording is outside the repository.
LogMessages(root) ==
    { FileUploadedLit \o <<":">> \o root,
      FileUploadedLit \o <<",", " ", "r", "o", "o", "t", " ", "=", ":">> \o root,
      FileUploadedLit \o <<" ">> \o root,
      <<"u", "p", "l", "o", "a", "d", ":">> \o root }

\* strings.Split(s, ":").
RECURSIVE StringsSplit(_)
StringsSplit(s) ==
    LET colons == {k \in 1..Len(s) : s[k] = ":"}
    IN  IF colons = {} THEN <<s>>
        ELSE LET k == CHOOSE c \in colons : \A d \in colons : c <= d
             IN  <<SubSeq(s, 1, k - 1)>> \o StringsSplit(SubSeq(s, k + 1, Len(s)))

\* filepath.SplitList(path): the list separator of Unix is ':'.
SplitList(path) == IF path = EmptyString THEN <<>> ELSE StringsSplit(path)

\* `len(s) > 12 && s[:12] == "file uploaded"`.
IsUploadedLine(s) == Len(s) > 12 /\ Prefix(s, 12) = FileUploadedLit

\* The substituted logrus.Infof: what the line s sends on rootChan (a channel
\* of capacity 1, here the sequence of the values it holds).
LogHook(s) ==
    IF IsUploadedLine(s)
    THEN LET fields == SplitList(s)
             hits == {k \in 1..Len(fields) : Len(fields[k]) = 64 \/ Len(fields[k]) = 66}
         IN  IF hits = {} THEN <<>>
             ELSE <<fields[CHOOSE k \in hits : \A j \in hits : k <= j]>>
    ELSE <<>>

NoErr == [kind |-> "nil", frag |-> 0]

\* Mutant of SelectRoot: no `case <-time.After(..)`; the receive waits for ever.
SelectRoot_NoTimeout(rootChan) ==
    IF rootChan # <<>>
    THEN [root |-> Head(rootChan), err |-> FALSE, blocked |-> FALSE]
    ELSE [root |-> EmptyString, err |-> FALSE, blocked |-> TRUE]

\* `select { case root := <-rootChan: .. case <-time.After(60 * time.Second): .. }`
SelectRoot(rootChan) ==
    IF rootChan # <<>>
    THEN [root |-> Head(rootChan), err |-> FALSE, blocked |-> FALSE]
    ELSE [root |-> EmptyString, err |-> TRUE, blocked |-> FALSE]

\* The outcomes of uploadCmd's execution for a fragment holding `data`: it
\* fails, it runs into its --timeout (an error as well), or it stores the
\* fragment and logs one line.
PutOutcomes(data) ==
    {[kind |-> "error", line |-> EmptyString], [kind |-> "timeout", line |-> EmptyString]}
    \cup {[kind |-> "ok", line |-> m] : m \in LogMessages(RootOf(data))}

\* uploadSingleFragment up to `if err != nil { return "", err }`: the result
\* when the command failed, and otherwise the content of rootChan.
UploadExecuted(outcome) ==
    IF outcome.kind # "ok"
    THEN [done |-> TRUE, rootChan |-> <<>>]
    ELSE [done |-> FALSE, rootChan |-> LogHook(outcome.line)]

\* Mutant of UploadLoopBody: a failed upload is skipped and the loop goes on.
UploadLoopBody_Continue(r, i, roots, printed) ==
    IF r.err
    THEN [pc |-> "upload", i |-> i + 1, roots |-> roots, printed |-> printed,
          runErr |-> NoErr]
    ELSE [pc |-> "upload", i |-> i + 1, roots |-> Append(roots, r.root),
          printed |-> Append(printed, [frag |-> i + 1, root |-> r.root]),
          runErr |-> NoErr]

\* The body of run's upload loop once uploadSingleFragment has returned r for
\* fragmentFiles[i]: the error names fragment i+1 and ends the run, or the root
\* is appended to roots and printed.
UploadLoopBody(r, i, roots, printed) ==
    IF r.err
    THEN [pc |-> "return", i |-> i, roots |-> roots, printed |-> printed,
          runErr |-> [kind |-> "upload", frag |-> i + 1]]
    ELSE [pc |-> "upload", i |-> i + 1, roots |-> Append(roots, r.root),
          printed |-> Append(printed, [frag |-> i + 1, root |-> r.root]),
          runErr |-> NoErr]

\* ------------------------------------------------ downloadAndMerge (get)
\* What can happen to one manifest entry: os.CreateTemp fails (tmpFile is nil
\* and tmpFile.Name() panics), the download command fails or times out, it
\* writes `block` to the temporary file and os.ReadFile then fails or succeeds,
\* or out.Write fails.
DlKinds == {"ok", "tmpfail", "getfail", "readfail", "writefail"}
DlOutcomes == [kind : DlKinds, block : Blocks]

\* `data, _ := os.ReadFile(tmpPath)`: nil when the read fails, the error dropped.
ReadTemp(o) == IF o.kind = "readfail" THEN <<>> ELSE o.block

\* The loop of downloadAndMerge from entry k on (k counts from 1).  st.out: the
\* bytes written to the output file; st.gets: the roots the download command was
\* run for; st.retrieved: the blocks it wrote; st.temps: the temporary files
\* created (named by k), each with its removal deferred.
RECURSIVE DownloadLoop(_, _, _, _)
DownloadLoop(roots, outs, k, st) ==
    IF k > Len(roots) THEN [st EXCEPT !.err = NoErr]
    ELSE
    LET o == outs[k]
        got == [st EXCEPT !.gets = Append(@, roots[k]),
                          !.temps = @ \cup {k}]
    IN  IF o.kind = "tmpfail"
        THEN [st EXCEPT !.err = [kind |-> "panic", frag |-> k]]
        ELSE IF o.kind = "getfail"
        THEN [got EXCEPT !.err = [kind |-> "download", frag |-> k]]
        ELSE IF o.kind = "writefail"
        THEN [got EXCEPT !.retrieved = Append(@, o.block),
                         !.err = [kind |-> "write", frag |-> k]]
        ELSE DownloadLoop(roots, outs, k + 1,
                 [got EXCEPT !.retrieved = Append(@, o.block),
                             !.out = @ \o ReadTemp(o)])

\* The `defer os.Remove(tmpPath)` of every iteration, run when the function
\* returns or panics: the temporary files that are removed.
DeferredRemoves(st) == st.temps

\* downloadAndMerge(roots, outputPath).  createOk = FALSE is os.Create failing.
\* restored is the file at outputPath before the call; os.Create truncates it.
downloadAndMerge(roots, restored, createOk, outs) ==
    IF ~createOk
    THEN [restored |-> restored, gets |-> <<>>, retrieved |-> <<>>, temps |-> {},
          err |-> [kind |-> "create", frag |-> 0]]
    ELSE LET st == DownloadLoop(roots, outs, 1,
                       [out |-> <<>>, gets |-> <<>>, retrieved |-> <<>>,
                        temps |-> {}, err |-> NoErr])
         IN  [restored |-> [exists |-> TRUE, data |-> st.out],
              gets |-> st.gets, retrieved |-> st.retrieved,
              temps |-> st.temps \ DeferredRemoves(st), err |-> st.err]

\* ----------------------------------------------------- run's deferred calls
\* Mutant of TmpDirRemoved: the directory is removed at the end of a run that
\* got there, not by a deferred call.
TmpDirRemoved_OnSuccess(tmpDirState, err) ==
    IF tmpDirState = "exists" /\ err = NoErr THEN "removed" ELSE tmpDirState

\* `defer os.RemoveAll(tmpDir)`, registered once MkdirTemp succeeded: the state
\* of the fragment directory after run has returned.
TmpDirRemoved(tmpDirState, err) ==
    IF tmpDirState = "exists" THEN "removed" ELSE tmpDirState

\* main: logrus.Fatal(err) exits with 1; a panic exits with 2.
ExitCode(err) ==
    IF err = NoErr THEN 0 ELSE IF err.kind = "panic" THEN 2 ELSE 1

\* ------------------------------------------------------------------- state
VARIABLES
    pc,            \* where run() is: md5, mkdir, split, upload, select, download,
                   \* verify, return (run's deferred calls and main), done
    source,        \* the bytes of the file at filePath
    chunkSize,     \* the chunkSize splitFile is called with
    originMD5,     \* run's originMD5
    tmpDir,        \* the fragment directory: none, exists, removed
    disk,          \* the fragment files in tmpDir: disk[n + 1] is fragment_n
    fragmentFiles, \* run's fragmentFiles (a path is the fragment's number)
    i,             \* the index of run's upload loop
    rootChan,      \* uploadSingleFragment's rootChan
    roots,         \* run's roots, the manifest
    printed,       \* the (fragment, root) pairs printed by line 84
    puts,          \* history: the executions of the upload command
    failedAt,      \* history: the index whose uploadSingleFragment failed, or -1
    restored,      \* the file at filePath + ".restored"
    dlCalled,      \* history: downloadAndMerge has been called
    dlErr,         \* history: what downloadAndMerge returned
    gets,          \* history: the roots the download command was run for
    retrieved,     \* history: the blocks the download command wrote
    dlTemps,       \* the 0g-download-*.dat files that exist
    restoredMD5,   \* run's restoredMD5
    verdict,       \* the verdict printed: none, VERIFIED, MISMATCH
    runErr,        \* what run() returns
    exitCode       \* the exit code of the process, -1 while it runs

vars == <<pc, source, chunkSize, originMD5, tmpDir, disk, fragmentFiles, i,
          rootChan, roots, printed, puts, failedAt, restored, dlCalled, dlErr,
          gets, retrieved, dlTemps, restoredMD5, verdict, runErr, exitCode>>

uploadVars == <<i, rootChan, roots, printed, puts, failedAt>>
downloadVars == <<restored, dlCalled, dlErr, gets, retrieved, dlTemps>>
verifyVars == <<restoredMD5, verdict>>

\* The state when main calls run(), for a file `src`.
Start(src, chunk) ==
    /\ source = src
    /\ chunkSize = chunk
    /\ originMD5 = EmptyString
    /\ tmpDir = "none"
    /\ disk = <<>>
    /\ fragmentFiles = <<>>
    /\ i = 0
    /\ rootChan = <<>>
    /\ roots = <<>>
    /\ printed = <<>>
    /\ puts = <<>>
    /\ failedAt = -1
    /\ restored = [exists |-> FALSE, data |-> <<>>]
    /\ dlCalled = FALSE
    /\ dlErr = NoErr
    /\ gets = <<>>
    /\ retrieved = <<>>
    /\ dlTemps = {}
    /\ restoredMD5 = EmptyString
    /\ verdict = "none"
    /\ runErr = NoErr
    /\ exitCode = -1

Init ==
    /\ pc = "md5"
    /\ \E src \in Sources : Start(src, FragmentSize)

\* run, step 1: originMD5, err := fileMD5(filePath).
ComputeOriginMD5 ==
    /\ pc = "md5"
    /\ \E ok \in BOOLEAN :
         LET r == fileMD5(source, ok)
         IN  /\ originMD5' = r.sum
             /\ runErr' = IF r.err THEN [kind |-> "md5", frag |-> 0] ELSE NoErr
             /\ pc' = IF r.err THEN "return" ELSE "mkdir"
    /\ UNCHANGED <<source, chunkSize, tmpDir, disk, fragmentFiles, uploadVars,
                   downloadVars, verifyVars, exitCode>>

\* run, step 2: os.MkdirTemp and the deferred os.RemoveAll.
MkdirTemp ==
    /\ pc = "mkdir"
    /\ \E ok \in BOOLEAN :
         /\ tmpDir' = IF ok THEN "exists" ELSE tmpDir
         /\ runErr' = IF ok THEN NoErr ELSE [kind |-> "mkdir", frag |-> 0]
         /\ pc' = IF ok THEN "split" ELSE "return"
    /\ UNCHANGED <<source, chunkSize, originMD5, disk, fragmentFiles, uploadVars,
                   downloadVars, verifyVars, exitCode>>

\* run, step 3: fragmentFiles, err := splitFile(filePath, tmpDir, FragmentSize).
SplitFile ==
    /\ pc = "split"
    /\ \E fault \in SplitFaults(source, chunkSize) :
         LET r == splitFile(source, chunkSize, fault)
         IN  /\ disk' = r.disk
             /\ fragmentFiles' = r.files
             /\ runErr' = IF r.err THEN [kind |-> "split", frag |-> 0] ELSE NoErr
             /\ pc' = IF r.err THEN "return" ELSE "upload"
    /\ UNCHANGED <<source, chunkSize, originMD5, tmpDir, uploadVars, downloadVars,
                   verifyVars, exitCode>>

\* The file fragmentFiles[i] names.
FragmentData(n) == disk[fragmentFiles[n + 1] + 1]

\* run, step 4, one iteration: uploadSingleFragment up to the command's return,
\* and the loop body at once when the command failed.
UploadExecute ==
    /\ pc = "upload"
    /\ i < Len(fragmentFiles)
    /\ \E o \in PutOutcomes(FragmentData(i)) :
         LET x == UploadExecuted(o)
             b == UploadLoopBody([root |-> EmptyString, err |-> TRUE], i, roots, printed)
         IN  /\ puts' = Append(puts, [idx |-> i, ok |-> o.kind = "ok",
                                      root |-> IF o.kind = "ok"
                                               THEN RootOf(FragmentData(i))
                                               ELSE EmptyString])
             /\ rootChan' = x.rootChan
             /\ failedAt' = IF x.done THEN i ELSE failedAt
             /\ pc' = IF x.done THEN b.pc ELSE "select"
             /\ i' = IF x.done THEN b.i ELSE i
             /\ roots' = IF x.done THEN b.roots ELSE roots
             /\ printed' = IF x.done THEN b.printed ELSE printed
             /\ runErr' = IF x.done THEN b.runErr ELSE runErr
    /\ UNCHANGED <<source, chunkSize, originMD5, tmpDir, disk, fragmentFiles,
                   downloadVars, verifyVars, exitCode>>

\* run, step 4, the rest of the iteration: the select of uploadSingleFragment
\* and the loop body.
UploadSelect ==
    /\ pc = "select"
    /\ LET r == SelectRoot(rootChan)
           b == UploadLoopBody(r, i, roots, printed)
       IN  /\ ~r.blocked
           /\ rootChan' = <<>>
           /\ failedAt' = IF r.err THEN i ELSE failedAt
           /\ pc' = b.pc
           /\ i' = b.i
           /\ roots' = b.roots
           /\ printed' = b.printed
           /\ runErr' = b.runErr
    /\ UNCHANGED <<source, chunkSize, originMD5, tmpDir, disk, fragmentFiles, puts,
                   downloadVars, verifyVars, exitCode>>

\* run, step 5: the loop is over; downloadAndMerge(roots, mergedFile).
DownloadAndMerge ==
    /\ pc = "upload"
    /\ i >= Len(fragmentFiles)
    /\ \E createOk \in BOOLEAN, outs \in [1..Len(roots) -> DlOutcomes] :
         LET r == downloadAndMerge(roots, restored, createOk, outs)
         IN  /\ restored' = r.restored
             /\ gets' = r.gets
             /\ retrieved' = r.retrieved
             /\ dlTemps' = r.temps
             /\ dlErr' = r.err
             /\ runErr' = r.err
             /\ pc' = IF r.err = NoErr THEN "verify" ELSE "return"
    /\ dlCalled' = TRUE
    /\ UNCHANGED <<source, chunkSize, originMD5, tmpDir, disk, fragmentFiles,
                   uploadVars, verifyVars, exitCode>>

\* Lines 101-107: the verdict printed, and `return nil` whatever it is.
VerifyMD5Result(origin, sum) ==
    [verdict |-> IF origin = sum THEN "VERIFIED" ELSE "MISMATCH", err |-> NoErr]

\* run, step 6: restoredMD5, _ := fileMD5(mergedFile), the verdict, return nil.
VerifyMD5 ==
    /\ pc = "verify"
    /\ \E ok \in BOOLEAN :
         LET sum == fileMD5(restored.data, ok).sum
             v == VerifyMD5Result(originMD5, sum)
         IN  /\ restoredMD5' = sum
             /\ verdict' = v.verdict
             /\ runErr' = v.err
    /\ pc' = "return"
    /\ UNCHANGED <<source, chunkSize, originMD5, tmpDir, disk, fragmentFiles,
                   uploadVars, downloadVars, exitCode>>

\* run returns: its deferred os.RemoveAll(tmpDir) runs, and main exits.
RunReturn ==
    /\ pc = "return"
    /\ tmpDir' = TmpDirRemoved(tmpDir, runErr)
    /\ disk' = IF tmpDir' = "removed" THEN <<>> ELSE disk
    /\ exitCode' = ExitCode(runErr)
    /\ pc' = "done"
    /\ UNCHANGED <<source, chunkSize, originMD5, fragmentFiles, uploadVars,
                   downloadVars, verifyVars, runErr>>

Next ==
    \/ ComputeOriginMD5
    \/ MkdirTemp
    \/ SplitFile
    \/ UploadExecute
    \/ UploadSelect
    \/ DownloadAndMerge
    \/ VerifyMD5
    \/ RunReturn

Spec == Init /\ [][Next]_vars

\* splitFile on its own: any source and any chunkSize > 0.
SplitInit ==
    /\ pc = "split"
    /\ \E src \in Sources, chunk \in 1..MaxChunk : Start(src, chunk)

SplitSpec == SplitInit /\ [][SplitFile]_vars

\* downloadAndMerge on its own: any manifest.
DlRoots == {RootOf(b) : b \in Blocks \ {<<>>}}

DlInit ==
    /\ pc = "upload"
    /\ tmpDir = "exists"
    /\ \E rs \in UNION {[1..n -> DlRoots] : n \in 0..MaxRoots} :
         /\ roots = rs
         /\ source = <<>>
         /\ chunkSize = FragmentSize
         /\ originMD5 = fileMD5(<<>>, TRUE).sum
         /\ disk = <<>>
         /\ fragmentFiles = <<>>
         /\ i = 0
         /\ rootChan = <<>>
         /\ printed = <<>>
         /\ puts = <<>>
         /\ failedAt = -1
         /\ restored = [exists |-> FALSE, data |-> <<>>]
         /\ dlCalled = FALSE
         /\ dlErr = NoErr
         /\ gets = <<>>
         /\ retrieved = <<>>
         /\ dlTemps = {}
         /\ restoredMD5 = EmptyString
         /\ verdict = "none"
         /\ runErr = NoErr
         /\ exitCode = -1

DlSpec == DlInit /\ [][DownloadAndMerge]_vars

\* The program's runs, and the runs from the call of downloadAndMerge on with
\* any manifest (the manifests line 94 could be given were roots ever filled).
WideInit == Init \/ DlInit

WideSpec == WideInit /\ [][Next]_vars

\* ------------------------------------------------------------------ claims
\* The bytes of the fragment files splitFile returned, in the order returned.
Fragments == [k \in 1..Len(fragmentFiles) |-> disk[fragmentFiles[k] + 1]]

\* ceil(a / b)
CeilDiv(a, b) == (a + b - 1) \div b

SplitReturned == pc = "upload" /\ runErr = NoErr

\* C1: the fragment files splitFile returns are fragment_000, fragment_001, ..
\* in that order, and their contents concatenated are the source's bytes: the
\* digest of the concatenation is the digest of the source.
C1_SplitConcatIsSource ==
    SplitReturned =>
        /\ \A k \in 1..Len(fragmentFiles) : fragmentFiles[k] = k - 1
        /\ Concat(Fragments) = source
        /\ fileMD5(Concat(Fragments), TRUE) = fileMD5(source, TRUE)

\* C1 witness: a source split in two, the last fragment shorter.
C1_Witness ==
    /\ SplitReturned
    /\ Len(fragmentFiles) = 2
    /\ Len(Fragments[2]) < chunkSize
    /\ Concat(Fragments) = source

C3_MismatchFailsRun ==
    pc = "done" =>
        /\ verdict = "VERIFIED" => originMD5 = restoredMD5
        /\ verdict # "VERIFIED" => runErr # NoErr /\ exitCode # 0

\* The put of fragment n that stored it, with the root the store gave.
StoredAs(n, root) ==
    \E k \in 1..Len(puts) : puts[k].idx = n /\ puts[k].ok /\ puts[k].root = root

\* C4: downloadAndMerge is only called with a manifest that holds one
\* ContentID per fragment of the split, roots[n] being the one the store gave
\* fragment n.
C4_ManifestCompleteBeforeDownload ==
    dlCalled =>
        /\ Len(roots) = Len(fragmentFiles)
        /\ \A k \in 1..Len(roots) : StoredAs(k - 1, roots[k])

\* C4 witness: the download started, manifest and fragment list of one length.
C4_Witness ==
    /\ dlCalled
    /\ tmpDir = "exists"
    /\ Len(roots) = Len(fragmentFiles)

\* C5: once the upload of fragment k has failed, run returns an error naming
\* fragment k (the k+1-th, as the program numbers them) and exits with 1, no
\* later fragment is put, downloadAndMerge is not called, and the roots of the
\* fragments before k have been printed.
C5_UploadFailureEndsRun ==
    failedAt >= 0 =>
        /\ pc \in {"return", "done"}
        /\ runErr = [kind |-> "upload", frag |-> failedAt + 1]
        /\ pc = "done" => exitCode = 1
        /\ \A k \in 1..Len(puts) : puts[k].idx <= failedAt
        /\ ~dlCalled /\ gets = <<>>
        /\ Len(roots) = failedAt /\ Len(printed) = failedAt
        /\ \A k \in 1..failedAt : printed[k] = [frag |-> k, root |-> roots[k]]

\* C5 witness: the first of several fragments failed, and the run is over.
C5_Witness ==
    /\ pc = "done"
    /\ failedAt = 0
    /\ Len(fragmentFiles) >= 2
    /\ Len(puts) = 1
    /\ exitCode = 1

\* C6 as claimed: after a run that ended in a mismatch of the digests, no file
\* is left at the restored path.
C6_NoRestoredFileOnMismatch ==
    (pc = "done" /\ verdict = "MISMATCH") => ~restored.exists

\* C7 as claimed: the fragments are put one at a time in index order, and once
\* uploadSingleFragment has returned for a fragment the store accepted, the
\* manifest holds at that index the ContentID the store reported.
C7_StoredRootIsRecorded ==
    \A k \in 1..Len(puts) :
        /\ puts[k].idx = k - 1
        /\ (puts[k].ok /\ pc # "select") =>
              /\ Len(roots) >= k
              /\ roots[k] = puts[k].root

\* C8 as claimed: when downloadAndMerge returns no error, the download command
\* was run for every root in order and the output file is the concatenation
\* of the blocks it retrieved; when a get failed, no later root was fetched.
C8_OutputIsConcatOfRetrieved ==
    dlCalled =>
        /\ dlErr = NoErr =>
              /\ gets = roots
              /\ Len(retrieved) = Len(roots)
              /\ restored.exists
              /\ restored.data = Concat(retrieved)
        /\ dlErr.kind = "download" => gets = SubSeq(roots, 1, dlErr.frag)

\* C9: when the run has ended, on any path, the fragment directory and its
\* files and every download temporary file are gone.
C9_TemporariesRemoved ==
    pc = "done" =>
        /\ tmpDir # "exists"
        /\ disk = <<>>
        /\ dlTemps = {}

\* C9 witness: a run that wrote fragment files and ended on a failed upload.
C9_Witness ==
    /\ pc = "done"
    /\ runErr.kind = "upload"
    /\ Len(fragmentFiles) >= 2
    /\ tmpDir = "removed"
    /\ disk = <<>>

\* No upload was skipped: every put whose uploadSingleFragment has returned
\* either left a ContentID of 64 or 66 characters at its index of the manifest
\* or ended the run with the error of that fragment.
NoSilentSkip ==
    /\ \A k \in 1..Len(roots) : Len(roots[k]) \in {64, 66}
    /\ pc # "select" =>
          \A k \in 1..Len(puts) :
              \/ k <= Len(roots)
              \/ /\ failedAt = puts[k].idx
                 /\ runErr = [kind |-> "upload", frag |-> k]
                 /\ pc \in {"return", "done"}
    /\ dlErr.kind = "download" =>
          /\ runErr = dlErr
          /\ pc \in {"return", "done"}
          /\ verdict = "none"

\* The number of steps run has left at most: each step of run lowers it.
Remaining ==
    CASE pc = "md5" -> 2 * Len(source) + 8
      [] pc = "mkdir" -> 2 * Len(source) + 7
      [] pc = "split" -> 2 * Len(source) + 6
      [] pc = "upload" -> 2 * (Len(fragmentFiles) - i) + 5
      [] pc = "select" -> 2 * (Len(fragmentFiles) - i) + 4
      [] pc = "verify" -> 2
      [] pc = "return" -> 1
      [] pc = "done" -> 0

\* C10: no step of run blocks (until the run is over a step can be taken, and
\* each step brings the end nearer, so every run ends), and a put or get that
\* failed or ran out of time, or an upload whose root was never captured,
\* ended the run with that fragment's error: nothing is skipped and no empty
\* ContentID enters the manifest.
C10_BoundedAndNeverSkipped ==
    /\ []NoSilentSkip
    /\ [](pc # "done" => ENABLED Next)
    /\ [][Remaining' < Remaining]_vars

\* C10 witness: the store accepted a fragment, no root was captured within the
\* 60 seconds, and the run ended with that fragment's error.
C10_Witness ==
    /\ pc = "done"
    /\ Len(puts) = 1 /\ puts[1].ok
    /\ failedAt = 0
    /\ runErr = [kind |-> "upload", frag |-> 1]
    /\ roots = <<>>

=============================================================================
